---- MODULE Spec2Model ----
(***************************************************************************)
(* The reviewer workload aggregation and badge classification of           *)
(* src/src/tools/ReviewerStatsTool.ts: reviewerStats (fetch, draft filter, *)
(* aggregation by reviewer, sort), assignBadges and pickRandomBadge.       *)
(*                                                                         *)
(* Numbers: the code computes avgRequired, completionRate and              *)
(* unreviewedRate as IEEE doubles.  They are modelled as exact rationals   *)
(* <<numerator, denominator>>; for the counts reachable within the bounds  *)
(* below every comparison of the code has the same truth value in double   *)
(* arithmetic as in exact arithmetic.                                      *)
(***************************************************************************)
EXTENDS Integers, Sequences, FiniteSets, TLC

(***************************************************************************)
(* Bounds of the model.                                                    *)
(***************************************************************************)
\* longest list of reviewer stats handed to assignBadges
MaxStats == 3
\* largest requiredCount of a reviewer stat handed to assignBadges
MaxReq == 5
\* the random source returns k / RandomGrain for k in 0 .. RandomGrain - 1
RandomGrain == 4
\* most required assignments, over all reviewers, of a list handed to
\* assignBadges
MaxTotal == 11
\* the votes of the vote classification run from -MaxVote to MaxVote
MaxVote == 12
\* most pull requests fetched in one pass of reviewerStats
MaxPRs == 2
\* most reviewer assignments, over all pull requests, fetched in one pass
MaxAssignments == 2
\* most repositories a repository listing returns
MaxRepos == 2
\* most reviewer assignments fetched in one pass from the service of the
\* sort
MaxSortAssignments == 4
\* most reviewer assignments fetched in one pass from the service of the
\* degraded identities
MaxIdentityAssignments == 3
\* most calls of getGitApi in one run of the connection module
MaxCalls == 3

VARIABLES
    pc,           \* position of the reviewerStats call: "idle", "single",
                  \* "repos", "loop", "fetched", "done"
    requiredOnly, \* params.requiredOnly !== false
    reposLeft,    \* repositories the fetch loop has still to visit
    allPRs,       \* the pull requests fetched so far
    result,       \* what the call returned: <<>> (nothing yet) or <<OperationResult>>
    failure,      \* history of the call: which request to the service threw,
                  \* "none", "setup", "listing" or "repo"
    received,     \* history of the call: the pull requests the service
                  \* returned to this call, in the order received
    earlier,      \* history: an earlier call returned statistics of reviewers
    bpc,          \* position in the classification pass: "input", "assigned", "picked"
    stats,        \* the list assignBadges is called with (filteredStats)
    avgRequired,  \* assignBadges' local avgRequired, a rational <<num, den>>
    badges,       \* the list assignBadges returned
    badge,        \* what pickRandomBadge returned: <<>> (null) or <<badge>>
    webApi,       \* connection.ts: the cached WebApi, <<>> (null) or <<org>>,
                  \* the organization it was created for
    gitApi,       \* connection.ts: the cached Git client, <<>> (null) or
                  \* <<org>>, the organization of the WebApi that created it
    currentOrg,   \* connection.ts: <<>> (null) or <<org>>
    calls         \* the calls of getGitApi so far, each
                  \* [org, at, connection, returned]

bvars == <<bpc, stats, avgRequired, badges, badge>>
cvars == <<webApi, gitApi, currentOrg, calls>>
pvars == <<pc, requiredOnly, reposLeft, allPRs, result, failure,
           received, earlier>>
vars == <<pc, requiredOnly, reposLeft, allPRs, result, failure,
          received, earlier,
          bpc, stats, avgRequired, badges, badge,
          webApi, gitApi, currentOrg, calls>>

(***************************************************************************)
(* Exact rationals <<n, d>> with d > 0.                                    *)
(***************************************************************************)
Rat(n, d) == <<n, d>>
RatOfInt(n) == <<n, 1>>
RatLe(a, b) == a[1] * b[2] <= b[1] * a[2]
RatGe(a, b) == RatLe(b, a)
RatEq(a, b) == a[1] * b[2] = b[1] * a[2]
RatMul(a, b) == <<a[1] * b[1], a[2] * b[2]>>
RatMax(a, b) == IF RatGe(a, b) THEN a ELSE b

(***************************************************************************)
(* assignBadges                                                            *)
(***************************************************************************)
RECURSIVE SumRequired(_)
\* stats.reduce((sum, r) => sum + r.requiredCount, 0)
SumRequired(s) ==
    IF Len(s) = 0 THEN 0
    ELSE SumRequired(SubSeq(s, 1, Len(s) - 1)) + s[Len(s)].requiredCount

\* a plausible slip: the mean over the reviewers that are classified only
AvgRequiredOverClassified(s) ==
    LET counted == SelectSeq(s, LAMBDA r : r.requiredCount > 0)
    IN  IF Len(counted) = 0 THEN RatOfInt(0)
        ELSE Rat(SumRequired(counted), Len(counted))

\* sum / stats.length || 0 : 0 / 0 is NaN, which || turns into 0
AvgRequired(s) ==
    IF Len(s) = 0 THEN RatOfInt(0) ELSE Rat(SumRequired(s), Len(s))

completionRate(r) == Rat(r.approvedCount, r.requiredCount)
unreviewedRate(r) == Rat(r.pendingCount, r.requiredCount)
\* a plausible slip: the factor of the low-volume test used for high volume
isHighVolumeHalf(r, avg) ==
    RatGe(RatOfInt(r.requiredCount), RatMul(avg, Rat(1, 2)))

\* a plausible slip: the factor 1.5 left out
isHighVolumeAtAverage(r, avg) == RatGe(RatOfInt(r.requiredCount), avg)

\* a plausible slip: > instead of >=
isHighVolumeStrict(r, avg) ==
    ~RatLe(RatOfInt(r.requiredCount), RatMul(avg, Rat(3, 2)))

isHighVolume(r, avg) == RatGe(RatOfInt(r.requiredCount), RatMul(avg, Rat(3, 2)))
\* a plausible slip: < instead of <=
isLowVolumeStrict(r, avg) ==
    /\ RatLe(RatOfInt(r.requiredCount), RatMax(RatOfInt(1), RatMul(avg, Rat(1, 2))))
    /\ ~RatEq(RatOfInt(r.requiredCount), RatMax(RatOfInt(1), RatMul(avg, Rat(1, 2))))

\* a plausible slip: the floor of 1 (Math.max) left out
isLowVolumeNoFloor(r, avg) ==
    RatLe(RatOfInt(r.requiredCount), RatMul(avg, Rat(1, 2)))

isLowVolume(r, avg) ==
    RatLe(RatOfInt(r.requiredCount), RatMax(RatOfInt(1), RatMul(avg, Rat(1, 2))))
isMedVolume(r, avg) == ~isHighVolume(r, avg) /\ ~isLowVolume(r, avg)

\* the condition of the Benchwarmer rule
BenchwarmerCondition(r, avg) == isLowVolume(r, avg) /\ r.requiredCount <= 1

\* one entry pushed on badges; reviewer is the position in stats of the
\* ReviewerStat object the badge refers to
Badge(i, emoji, title) == [reviewer |-> i, emoji |-> emoji, title |-> title]

\* a plausible slip: the Speed Demon test is an if of its own instead of the
\* last else-if of the chain
BadgesForIndependentSpeedDemon(r, i, avg) ==
    (IF isHighVolume(r, avg) /\ RatGe(completionRate(r), Rat(8, 10))
        THEN <<Badge(i, "superhero", "Super Reviewer")>>
     ELSE IF isHighVolume(r, avg) /\ RatGe(unreviewedRate(r), Rat(5, 10))
        THEN <<Badge(i, "sos", "Needs Backup")>>
     ELSE IF (isLowVolume(r, avg) \/ isMedVolume(r, avg))
              /\ RatGe(unreviewedRate(r), Rat(7, 10)) /\ r.pendingCount >= 2
        THEN <<Badge(i, "sleeping", "Needs Coffee")>>
     ELSE IF isLowVolume(r, avg) /\ r.requiredCount <= 1
        THEN <<Badge(i, "chair", "Benchwarmer")>>
     ELSE IF r.requiredCount >= 2 /\ RatEq(completionRate(r), RatOfInt(1))
        THEN <<Badge(i, "sparkles", "Flawless")>>
     ELSE IF r.rejectedCount >= 1
        THEN <<Badge(i, "no_entry", "Gatekeeper")>>
     ELSE IF r.waitingForAuthorCount >= 2
        THEN <<Badge(i, "hourglass", "Waiting Room")>>
     ELSE <<>>)
    \o (IF isMedVolume(r, avg) /\ RatGe(completionRate(r), Rat(7, 10))
        THEN <<Badge(i, "zap", "Speed Demon")>>
        ELSE <<>>)

\* a plausible slip: the Speed Demon test placed before the Flawless test
BadgesForSpeedDemonEarly(r, i, avg) ==
    IF isHighVolume(r, avg) /\ RatGe(completionRate(r), Rat(8, 10))
        THEN <<Badge(i, "superhero", "Super Reviewer")>>
    ELSE IF isHighVolume(r, avg) /\ RatGe(unreviewedRate(r), Rat(5, 10))
        THEN <<Badge(i, "sos", "Needs Backup")>>
    ELSE IF (isLowVolume(r, avg) \/ isMedVolume(r, avg))
             /\ RatGe(unreviewedRate(r), Rat(7, 10)) /\ r.pendingCount >= 2
        THEN <<Badge(i, "sleeping", "Needs Coffee")>>
    ELSE IF isLowVolume(r, avg) /\ r.requiredCount <= 1
        THEN <<Badge(i, "chair", "Benchwarmer")>>
    ELSE IF isMedVolume(r, avg) /\ RatGe(completionRate(r), Rat(7, 10))
        THEN <<Badge(i, "zap", "Speed Demon")>>
    ELSE IF r.requiredCount >= 2 /\ RatEq(completionRate(r), RatOfInt(1))
        THEN <<Badge(i, "sparkles", "Flawless")>>
    ELSE IF r.rejectedCount >= 1
        THEN <<Badge(i, "no_entry", "Gatekeeper")>>
    ELSE IF r.waitingForAuthorCount >= 2
        THEN <<Badge(i, "hourglass", "Waiting Room")>>
    ELSE <<>>

\* the body of the for loop for one reviewer r = stats[i] with
\* requiredCount # 0: the if / else-if chain, which pushes at most one badge
BadgesFor(r, i, avg) ==
    IF isHighVolume(r, avg) /\ RatGe(completionRate(r), Rat(8, 10))
        THEN <<Badge(i, "superhero", "Super Reviewer")>>
    ELSE IF isHighVolume(r, avg) /\ RatGe(unreviewedRate(r), Rat(5, 10))
        THEN <<Badge(i, "sos", "Needs Backup")>>
    ELSE IF (isLowVolume(r, avg) \/ isMedVolume(r, avg))
             /\ RatGe(unreviewedRate(r), Rat(7, 10)) /\ r.pendingCount >= 2
        THEN <<Badge(i, "sleeping", "Needs Coffee")>>
    ELSE IF isLowVolume(r, avg) /\ r.requiredCount <= 1
        THEN <<Badge(i, "chair", "Benchwarmer")>>
    ELSE IF r.requiredCount >= 2 /\ RatEq(completionRate(r), RatOfInt(1))
        THEN <<Badge(i, "sparkles", "Flawless")>>
    ELSE IF r.rejectedCount >= 1
        THEN <<Badge(i, "no_entry", "Gatekeeper")>>
    ELSE IF r.waitingForAuthorCount >= 2
        THEN <<Badge(i, "hourglass", "Waiting Room")>>
    ELSE IF isMedVolume(r, avg) /\ RatGe(completionRate(r), Rat(7, 10))
        THEN <<Badge(i, "zap", "Speed Demon")>>
    ELSE <<>>

RECURSIVE AssignLoop(_, _, _)
\* for (const r of stats) { if (r.requiredCount === 0) continue; ... }
AssignLoop(s, n, avg) ==
    IF n = 0 THEN <<>>
    ELSE AssignLoop(s, n - 1, avg)
         \o (IF s[n].requiredCount = 0 THEN <<>> ELSE BadgesFor(s[n], n, avg))

assignBadges(s) == AssignLoop(s, Len(s), AvgRequired(s))

(***************************************************************************)
(* pickRandomBadge                                                         *)
(***************************************************************************)
\* a plausible slip: Math.ceil instead of Math.floor
RandomIndexCeil(k, len) == (k * len + RandomGrain - 1) \div RandomGrain

\* a plausible slip: Math.round instead of Math.floor
RandomIndexRound(k, len) == (2 * k * len + RandomGrain) \div (2 * RandomGrain)

\* Math.floor(Math.random() * badges.length), Math.random() = k / RandomGrain
RandomIndex(k, len) == (k * len) \div RandomGrain

\* badges[index] of a JavaScript array: undefined outside 0 .. length - 1,
\* which the caller's if (badge) treats like null
pickRandomBadge(b, k) ==
    IF Len(b) = 0 THEN <<>>
    ELSE LET index == RandomIndex(k, Len(b))
         IN  IF index + 1 \in DOMAIN b THEN <<b[index + 1]>> ELSE <<>>

(***************************************************************************)
(* The classification pass of generateMarkdownTable on a list of stats.    *)
(***************************************************************************)
\* the fields of a ReviewerStat that assignBadges reads; the four outcome
\* counts add up to requiredCount, as the aggregation leaves them
StatInputs ==
    { [displayName |-> "R", requiredCount |-> a + w + j + p,
       approvedCount |-> a, waitingForAuthorCount |-> w,
       rejectedCount |-> j, pendingCount |-> p] :
        a \in 0 .. MaxReq, w \in 0 .. MaxReq, j \in 0 .. MaxReq, p \in 0 .. MaxReq }

\* the caller sorts the list by requiredCount, descending
SortedByRequired(s) ==
    \A i \in 1 .. Len(s) - 1 : s[i].requiredCount >= s[i + 1].requiredCount

BadgeInit ==
    /\ bpc = "input"
    /\ \E n \in 0 .. MaxStats :
         \E s \in [1 .. n -> {r \in StatInputs : r.requiredCount <= MaxReq}] :
            /\ SortedByRequired(s)
            /\ SumRequired(s) <= MaxTotal
            /\ stats = s
    /\ avgRequired = RatOfInt(0)
    /\ badges = <<>>
    /\ badge = <<>>
    /\ pc = "idle"
    /\ requiredOnly = TRUE
    /\ reposLeft = 0
    /\ allPRs = <<>>
    /\ result = <<>>
    /\ failure = "none"
    /\ received = <<>>
    /\ earlier = FALSE
    /\ webApi = <<>>
    /\ gitApi = <<>>
    /\ currentOrg = <<>>
    /\ calls = <<>>

AssignBadges ==
    /\ bpc = "input"
    /\ avgRequired' = AvgRequired(stats)
    /\ badges' = assignBadges(stats)
    /\ bpc' = "assigned"
    /\ UNCHANGED <<stats, badge>>
    /\ UNCHANGED pvars
    /\ UNCHANGED cvars

PickRandomBadge(k) ==
    /\ bpc = "assigned"
    /\ badge' = pickRandomBadge(badges, k)
    /\ bpc' = "picked"
    /\ UNCHANGED <<stats, avgRequired, badges>>
    /\ UNCHANGED pvars
    /\ UNCHANGED cvars

BadgeNext ==
    \/ AssignBadges
    \/ \E k \in 0 .. RandomGrain - 1 : PickRandomBadge(k)

SpecBadges == BadgeInit /\ [][BadgeNext]_vars

(***************************************************************************)
(* reviewerStats: the data it reads.                                       *)
(*                                                                         *)
(* A reviewer assignment (IdentityRefWithVote) is                          *)
(*   [uniqueName, displayName, isRequired, vote]                           *)
(* where a missing uniqueName or displayName is "" (the code's || treats   *)
(* undefined and "" alike), a missing isRequired is FALSE, and vote is     *)
(* <<>> when missing and <<v>> otherwise.  A pull request is               *)
(*   [pullRequestId, isDraft, reviewers].                                  *)
(* The title of a pull request is copied to the detail records and read    *)
(* nowhere; it is left out.                                                *)
(***************************************************************************)
\* String.prototype.toLowerCase on the strings of the model
ToLowerCase(str) ==
    CASE str = "A@X.IO" -> "a@x.io"
      [] str = "B@X.IO" -> "b@x.io"
      [] str = " a@x.io " -> " a@x.io "
      [] OTHER -> str

\* VoteLabels[vote] || "No vote"
VoteLabel(vote) ==
    CASE vote = 10 -> "Approved"
      [] vote = 5 -> "Approved with suggestions"
      [] vote = 0 -> "No vote"
      [] vote = -5 -> "Waiting for author"
      [] vote = -10 -> "Rejected"
      [] OTHER -> "No vote"

\* reviewer.vote || 0
VoteOf(reviewer) == IF reviewer.vote = <<>> THEN 0 ELSE reviewer.vote[1]

\* the ReviewerStat that statsMap.set(email, {...}) creates
NewStat(reviewer) ==
    [displayName |-> IF reviewer.displayName = "" THEN "Unknown"
                     ELSE reviewer.displayName,
     email |-> reviewer.uniqueName,
     requiredCount |-> 0, optionalCount |-> 0, totalCount |-> 0,
     approvedCount |-> 0, pendingCount |-> 0,
     waitingForAuthorCount |-> 0, rejectedCount |-> 0,
     prs |-> <<>>]

\* a plausible slip: -5 (waiting for author) tested with <= and so also
\* catching the rejections
CountVoteWaitingFirst(stat, vote) ==
    IF vote >= 10 THEN [stat EXCEPT !.approvedCount = @ + 1]
    ELSE IF vote <= -5 THEN [stat EXCEPT !.waitingForAuthorCount = @ + 1]
    ELSE IF vote <= -10 THEN [stat EXCEPT !.rejectedCount = @ + 1]
    ELSE [stat EXCEPT !.pendingCount = @ + 1]

\* a plausible slip: the final else left out, an unmapped vote counted nowhere
CountVoteNoDefault(stat, vote) ==
    IF vote >= 10 THEN [stat EXCEPT !.approvedCount = @ + 1]
    ELSE IF vote = -5 THEN [stat EXCEPT !.waitingForAuthorCount = @ + 1]
    ELSE IF vote <= -10 THEN [stat EXCEPT !.rejectedCount = @ + 1]
    ELSE stat

\* the if / else-if chain on vote: one outcome count is incremented
CountVote(stat, vote) ==
    IF vote >= 10 THEN [stat EXCEPT !.approvedCount = @ + 1]
    ELSE IF vote = -5 THEN [stat EXCEPT !.waitingForAuthorCount = @ + 1]
    ELSE IF vote <= -10 THEN [stat EXCEPT !.rejectedCount = @ + 1]
    ELSE [stat EXCEPT !.pendingCount = @ + 1]

\* statsMap is a Map, which iterates in insertion order: a sequence of
\* [key, stat] entries with distinct keys
MapHas(m, key) == \E i \in DOMAIN m : m[i].key = key
MapIndex(m, key) == CHOOSE i \in DOMAIN m : m[i].key = key

\* a plausible slip: stat.totalCount++ left out
CountAssignmentNoTotal(stat, pr, reviewer) ==
    LET vote == VoteOf(reviewer)
        counted == [stat EXCEPT !.requiredCount = @ + 1]
        voted == CountVote(counted, vote)
    IN  [voted EXCEPT !.prs = Append(@, [id |-> pr.pullRequestId,
                                          isRequired |-> TRUE,
                                          vote |-> VoteLabel(vote)])]

\* the stat of a counted assignment: totalCount++, requiredCount++, the vote
\* classified, the detail record pushed
CountAssignment(stat, pr, reviewer) ==
    LET vote == VoteOf(reviewer)
        counted == [stat EXCEPT !.totalCount = @ + 1, !.requiredCount = @ + 1]
        voted == CountVote(counted, vote)
    IN  [voted EXCEPT !.prs = Append(@, [id |-> pr.pullRequestId,
                                          isRequired |-> TRUE,
                                          vote |-> VoteLabel(vote)])]

\* a plausible slip: the test of isRequired left out
AddReviewerAnyAssignment(m, pr, reviewer) ==
    LET email == ToLowerCase(reviewer.uniqueName)
    IN  IF email = "" THEN m
        ELSE LET m1 == IF MapHas(m, email) THEN m
                       ELSE Append(m, [key |-> email, stat |-> NewStat(reviewer)])
                 i == MapIndex(m1, email)
             IN  [m1 EXCEPT ![i].stat = CountAssignment(@, pr, reviewer)]

\* a plausible slip: the test of the empty email left out
AddReviewerNoEmailCheck(m, pr, reviewer) ==
    IF ~reviewer.isRequired THEN m
    ELSE LET email == ToLowerCase(reviewer.uniqueName)
             m1 == IF MapHas(m, email) THEN m
                   ELSE Append(m, [key |-> email, stat |-> NewStat(reviewer)])
             i == MapIndex(m1, email)
         IN  [m1 EXCEPT ![i].stat = CountAssignment(@, pr, reviewer)]

\* a plausible slip: the display name refreshed by every assignment
AddReviewerLatestName(m, pr, reviewer) ==
    IF ~reviewer.isRequired THEN m
    ELSE LET email == ToLowerCase(reviewer.uniqueName)
         IN  IF email = "" THEN m
             ELSE LET m1 == IF MapHas(m, email) THEN m
                            ELSE Append(m, [key |-> email, stat |-> NewStat(reviewer)])
                      i == MapIndex(m1, email)
                  IN  [m1 EXCEPT ![i].stat =
                          [CountAssignment(@, pr, reviewer) EXCEPT
                              !.displayName = NewStat(reviewer).displayName]]

\* the body of the inner loop for one reviewer of one pull request
AddReviewer(m, pr, reviewer) ==
    IF ~reviewer.isRequired THEN m
    ELSE LET email == ToLowerCase(reviewer.uniqueName)
         IN  IF email = "" THEN m
             ELSE LET m1 == IF MapHas(m, email) THEN m
                            ELSE Append(m, [key |-> email, stat |-> NewStat(reviewer)])
                      i == MapIndex(m1, email)
                  IN  [m1 EXCEPT ![i].stat = CountAssignment(@, pr, reviewer)]

RECURSIVE AddReviewers(_, _, _)
\* for (const reviewer of pr.reviewers || [])
AddReviewers(m, pr, n) ==
    IF n = 0 THEN m
    ELSE AddReviewer(AddReviewers(m, pr, n - 1), pr, pr.reviewers[n])

RECURSIVE AggregateLoop(_, _)
\* for (const pr of nonDraftPRs)
AggregateLoop(prs, n) ==
    IF n = 0 THEN <<>>
    ELSE AddReviewers(AggregateLoop(prs, n - 1), prs[n], Len(prs[n].reviewers))

\* a plausible slip: the draft filter left out
NonDraftPRsUnfiltered(prs) == prs

\* allPRs.filter(pr => !pr.isDraft)
NonDraftPRs(prs) == SelectSeq(prs, LAMBDA pr : ~pr.isDraft)

\* Array.from(statsMap.values())
MapValues(m) == [i \in DOMAIN m |-> m[i].stat]

\* a plausible slip: a - b instead of b - a, which sorts ascending
CompareStatsAscending(a, b) ==
    IF a.requiredCount - b.requiredCount # 0
    THEN a.requiredCount - b.requiredCount
    ELSE a.totalCount - b.totalCount

\* the comparator of the sort: negative when a goes before b
CompareStats(a, b) ==
    IF b.requiredCount - a.requiredCount # 0
    THEN b.requiredCount - a.requiredCount
    ELSE b.totalCount - a.totalCount

RECURSIVE InsertSorted(_, _)
\* x put behind every element it does not go before
InsertSorted(s, x) ==
    IF Len(s) = 0 THEN <<x>>
    ELSE IF CompareStats(x, s[Len(s)]) < 0
         THEN Append(InsertSorted(SubSeq(s, 1, Len(s) - 1), x), s[Len(s)])
         ELSE Append(s, x)

RECURSIVE SortStats(_)
\* Array.prototype.sort with the comparator: a stable sort
SortStats(s) ==
    IF Len(s) = 0 THEN <<>>
    ELSE InsertSorted(SortStats(SubSeq(s, 1, Len(s) - 1)), s[Len(s)])

\* the statistics of one pass: aggregate the non-draft pull requests, sort
SortedStats(prs) ==
    LET nonDraftPRs == NonDraftPRs(prs)
    IN  SortStats(MapValues(AggregateLoop(nonDraftPRs, Len(nonDraftPRs))))

\* the description of a badge: the parts of the template string, in order
Description(title, r) ==
    CASE title = "Super Reviewer" ->
            <<r.displayName, " is crushing it with ", r.approvedCount, "/",
              r.requiredCount, " reviews complete!">>
      [] title = "Needs Backup" ->
            <<r.displayName, " has ", r.pendingCount,
              " unreviewed PRs - someone throw them a lifeline!">>
      [] title = "Needs Coffee" ->
            <<r.displayName, " has ", r.pendingCount,
              " PRs waiting... wakey wakey!">>
      [] title = "Benchwarmer" ->
            <<r.displayName, " is barely in the game with only ",
              r.requiredCount, " PR",
              IF r.requiredCount = 1 THEN "" ELSE "s", ". Put them in, coach!">>
      [] title = "Flawless" ->
            <<r.displayName, " has reviewed every single PR assigned. Respect.">>
      [] title = "Gatekeeper" ->
            <<r.displayName, " isn't afraid to say no - ", r.rejectedCount,
              " rejection", IF r.rejectedCount = 1 THEN "" ELSE "s",
              " and counting.">>
      [] title = "Waiting Room" ->
            <<r.displayName, " is stuck waiting on authors for ",
              r.waitingForAuthorCount, " PRs. Ball's in your court, devs!">>
      [] title = "Speed Demon" ->
            <<r.displayName, " is keeping the pipeline moving with ",
              r.approvedCount, "/", r.requiredCount, " done.">>

\* Math.max(a, b)
Max(a, b) == IF a >= b THEN a ELSE b

\* a plausible slip: the name column given the fixed width of its header
NameWidthFixed(s, n) == 8

RECURSIVE NameWidth(_, _)
\* Math.max(8, ...filteredStats.map(r => r.displayName.length)) over the
\* first n stats
NameWidth(s, n) ==
    IF n = 0 THEN 8 ELSE Max(NameWidth(s, n - 1), Len(s[n].displayName))

\* the header texts and the column widths of the two views
Headers(ro) ==
    IF ro
    THEN <<"Reviewer", "Required", "Approved", "Waiting for Author",
           "Rejected", "Unreviewed">>
    ELSE <<"Reviewer", "Required", "Optional", "Total", "Approved",
           "Waiting for Author", "Rejected", "Unreviewed">>
Widths(ro, nameWidth) ==
    IF ro THEN <<nameWidth, 8, 8, 18, 8, 10>>
    ELSE <<nameWidth, 8, 8, 5, 8, 18, 8, 10>>

\* a plausible slip: the rejected and the waiting-for-author count swapped
RowCellsSwapped(ro, r) ==
    IF ro
    THEN <<r.displayName, r.requiredCount, r.approvedCount,
           r.rejectedCount, r.waitingForAuthorCount, r.pendingCount>>
    ELSE <<r.displayName, r.requiredCount, r.optionalCount, r.totalCount,
           r.approvedCount, r.rejectedCount, r.waitingForAuthorCount,
           r.pendingCount>>

\* the cells of the data row of r
RowCells(ro, r) ==
    IF ro
    THEN <<r.displayName, r.requiredCount, r.approvedCount,
           r.waitingForAuthorCount, r.rejectedCount, r.pendingCount>>
    ELSE <<r.displayName, r.requiredCount, r.optionalCount, r.totalCount,
           r.approvedCount, r.waitingForAuthorCount, r.rejectedCount,
           r.pendingCount>>

\* a plausible slip: lines.push("") left out
BadgeLinesNoBlank(filteredStats, picked) ==
    IF picked = <<>> THEN <<>>
    ELSE << [kind |-> "badge", emoji |-> picked[1].emoji,
             title |-> picked[1].title,
             description |-> Description(picked[1].title,
                                         filteredStats[picked[1].reviewer])] >>

\* the lines.push of the badge: a blank line and the badge line, if (badge)
BadgeLines(filteredStats, picked) ==
    IF picked = <<>> THEN <<>>
    ELSE << [kind |-> "blank"],
            [kind |-> "badge", emoji |-> picked[1].emoji,
             title |-> picked[1].title,
             description |-> Description(picked[1].title,
                                         filteredStats[picked[1].reviewer])] >>

\* a plausible slip: the early return for the empty list left out
generateMarkdownTableNoEarlyReturn(s, totalPRs, ro, k) ==
    LET heading == << [kind |-> "heading", totalPRs |-> totalPRs],
                      [kind |-> "blank"] >>
        filteredStats == IF ro THEN SelectSeq(s, LAMBDA r : r.requiredCount > 0) ELSE s
        widths == Widths(ro, NameWidth(filteredStats, Len(filteredStats)))
    IN  heading
        \o << [kind |-> "header", cells |-> Headers(ro), widths |-> widths],
               [kind |-> "separator", widths |-> widths] >>
        \o [i \in DOMAIN filteredStats |->
               [kind |-> "row", cells |-> RowCells(ro, filteredStats[i]),
                widths |-> widths]]
        \o BadgeLines(filteredStats,
                       pickRandomBadge(assignBadges(filteredStats), k))

\* generateMarkdownTable: the report as the list of its lines (the lines
\* array that join("\n") turns into the text).  The heading ends with a
\* newline of its own, which makes the line after it blank.  A header, a
\* separator and a row are kept as their cells and the widths they are
\* padded to.
generateMarkdownTable(s, totalPRs, ro, k) ==
    LET heading == << [kind |-> "heading", totalPRs |-> totalPRs],
                      [kind |-> "blank"] >>
        filteredStats == IF ro THEN SelectSeq(s, LAMBDA r : r.requiredCount > 0) ELSE s
        widths == Widths(ro, NameWidth(filteredStats, Len(filteredStats)))
    IN  IF Len(filteredStats) = 0
        THEN heading \o << [kind |-> "text", text |-> "No reviewers found."] >>
        ELSE heading
             \o << [kind |-> "header", cells |-> Headers(ro), widths |-> widths],
                    [kind |-> "separator", widths |-> widths] >>
             \o [i \in DOMAIN filteredStats |->
                    [kind |-> "row", cells |-> RowCells(ro, filteredStats[i]),
                     widths |-> widths]]
             \o BadgeLines(filteredStats,
                            pickRandomBadge(assignBadges(filteredStats), k))

\* String(n).length of a count
Digits(n) == IF n < 10 THEN 1 ELSE IF n < 100 THEN 2 ELSE 3

\* the length of text.padEnd(width) and of text.padStart(width): padding
\* never shortens
PadLength(length, width) == Max(length, width)

RECURSIVE PaddedLength(_, _, _)
\* the lengths of the first n padded cells of a line added up; the cells of
\* a header and the first cell of a row are strings, the other cells of a
\* row are counts, and a separator repeats "-" width times
PaddedLength(line, n, isText) ==
    IF n = 0 THEN 0
    ELSE PaddedLength(line, n - 1, isText)
         + (IF line.kind = "separator" THEN line.widths[n]
            ELSE IF isText \/ n = 1
                 THEN PadLength(Len(line.cells[n]), line.widths[n])
                 ELSE PadLength(Digits(line.cells[n]), line.widths[n]))

\* the length of cells.join("  ")
LineLength(line) ==
    PaddedLength(line, Len(line.widths), line.kind = "header")
      + 2 * (Len(line.widths) - 1)

\* the OperationResult of a pass that fetched prs
SuccessResult(prs, ro, k) ==
    LET nonDraftPRs == NonDraftPRs(prs)
        sortedStats == SortedStats(prs)
    IN  [success |-> TRUE,
         message |-> [reviewers |-> Len(sortedStats), prs |-> Len(nonDraftPRs),
                      drafts |-> Len(prs) - Len(nonDraftPRs)],
         data |-> [reviewers |-> sortedStats,
                   totalPRs |-> Len(nonDraftPRs),
                   markdown |-> generateMarkdownTable(sortedStats,
                                    Len(nonDraftPRs), ro, k)]]

\* the OperationResult of the catch block
FailureResult ==
    [success |-> FALSE, error |-> "REVIEWER_STATS_FAILED"]

(***************************************************************************)
(* The operational script (reviewer-stats-discord.ps1): its aggregation of *)
(* the same pull requests and its Benchwarmer condition.                   *)
(***************************************************************************)
\* the entry $reviewerStats[$email] = @{...}; Name is read by the table only
ScriptNewStat(email) ==
    [Email |-> email, Required |-> 0, Approved |-> 0, Blocked |-> 0,
     Unreviewed |-> 0]

\* the if / elseif chain on $vote; a missing vote is $null, which -ge 5,
\* -eq -5 and -le -10 all answer with false
ScriptCountVote(stat, vote) ==
    IF vote = <<>> THEN [stat EXCEPT !.Unreviewed = @ + 1]
    ELSE IF vote[1] >= 5 THEN [stat EXCEPT !.Approved = @ + 1]
    ELSE IF vote[1] = -5 \/ vote[1] <= -10 THEN [stat EXCEPT !.Blocked = @ + 1]
    ELSE [stat EXCEPT !.Unreviewed = @ + 1]

\* the body of the inner foreach for one reviewer
ScriptAddReviewer(m, reviewer) ==
    IF ~reviewer.isRequired THEN m
    ELSE LET email == ToLowerCase(reviewer.uniqueName)
         IN  IF email = "" THEN m
             ELSE LET m1 == IF MapHas(m, email) THEN m
                            ELSE Append(m, [key |-> email,
                                            stat |-> ScriptNewStat(email)])
                      i == MapIndex(m1, email)
                  IN  [m1 EXCEPT ![i].stat =
                          ScriptCountVote([@ EXCEPT !.Required = @ + 1],
                                          reviewer.vote)]

RECURSIVE ScriptAddReviewers(_, _, _)
\* foreach ($reviewer in $pr.reviewers)
ScriptAddReviewers(m, pr, n) ==
    IF n = 0 THEN m
    ELSE ScriptAddReviewer(ScriptAddReviewers(m, pr, n - 1), pr.reviewers[n])

RECURSIVE ScriptAggregateLoop(_, _)
\* foreach ($pr in $activePRs)
ScriptAggregateLoop(prs, n) ==
    IF n = 0 THEN <<>>
    ELSE ScriptAddReviewers(ScriptAggregateLoop(prs, n - 1), prs[n],
                            Len(prs[n].reviewers))

\* $reviewerStats.Values of the pull requests that are no drafts
ScriptStats(prs) ==
    LET activePRs == SelectSeq(prs, LAMBDA pr : ~pr.isDraft)
    IN  MapValues(ScriptAggregateLoop(activePRs, Len(activePRs)))

\* the Condition of the script's Benchwarmer badge
ScriptBenchwarmer(r, avg) == r.requiredCount <= 1 /\ r.requiredCount > 0

(***************************************************************************)
(* reviewerStats as a process: the call, its awaits on the fetching layer  *)
(* and its return.                                                         *)
(***************************************************************************)
DisplayNameOf(name) == IF name = "a@x.io" THEN "Ann" ELSE "Bob"

\* the reviewer assignments the service returns: each vote of a required
\* reviewer, and an optional reviewer who approved
ReviewerInputs ==
    { [uniqueName |-> n, displayName |-> DisplayNameOf(n),
       isRequired |-> TRUE, vote |-> <<v>>] :
        n \in {"a@x.io", "b@x.io"}, v \in {10, 0, -5, -10} }
    \cup
    { [uniqueName |-> n, displayName |-> DisplayNameOf(n),
       isRequired |-> FALSE, vote |-> <<10>>] : n \in {"a@x.io", "b@x.io"} }

\* the service of the process: the reviewer assignments it returns, each on
\* drafts and on pull requests that are no drafts, at most `most` on a pull
\* request and `budget` in one pass
Service ==
    [inputs |-> ReviewerInputs, drafts |-> BOOLEAN, most |-> MaxAssignments,
     budget |-> MaxAssignments]

\* the pull requests of a service with n reviewer assignments, before their
\* ids
PRsWith(service, n) ==
    { [isDraft |-> d, reviewers |-> rs] :
        d \in service.drafts, rs \in [1 .. n -> service.inputs] }

RECURSIVE Assignments(_)
\* the reviewer assignments of a list of pull requests, counted
Assignments(prs) ==
    IF Len(prs) = 0 THEN 0
    ELSE Len(Head(prs).reviewers) + Assignments(Tail(prs))

RECURSIVE PRLists(_, _, _)
\* the lists of at most p pull requests of the service that carry at most a
\* reviewer assignments in all
PRLists(service, p, a) ==
    IF p = 0 THEN { <<>> }
    ELSE { <<>> } \cup
         UNION { LET rests == PRLists(service, p - 1, a - n)
                 IN  { <<pr>> \o rest : pr \in PRsWith(service, n), rest \in rests } :
                 n \in { n \in 0 .. a : n <= service.most } }

\* the service numbers pull requests uniquely: the ids base + 1, base + 2, ...
WithIds(prs, base) ==
    [i \in DOMAIN prs |->
        [pullRequestId |-> base + i, isDraft |-> prs[i].isDraft,
         reviewers |-> prs[i].reviewers]]

Init ==
    /\ pc = "idle"
    /\ requiredOnly = TRUE
    /\ reposLeft = 0
    /\ allPRs = <<>>
    /\ result = <<>>
    /\ failure = "none"
    /\ received = <<>>
    /\ earlier = FALSE
    /\ webApi = <<>>
    /\ gitApi = <<>>
    /\ currentOrg = <<>>
    /\ calls = <<>>
    /\ bpc = "input"
    /\ stats = <<>>
    /\ avgRequired = RatOfInt(0)
    /\ badges = <<>>
    /\ badge = <<>>

\* the call before this one returned statistics of at least one reviewer
ReturnedReviewers ==
    /\ pc = "done"
    /\ Len(result) = 1
    /\ result[1].success
    /\ result[1].data.reviewers # <<>>

\* a plausible slip: the list of pull requests kept at module level and
\* never cleared, so that the repository loop pushes onto the list of the
\* call before
InvokeKeepingPRs ==
    /\ pc \in {"idle", "done"}
    /\ \E ro \in BOOLEAN, single \in BOOLEAN :
         /\ requiredOnly' = ro
         /\ pc' = IF single THEN "single" ELSE "repos"
    /\ reposLeft' = 0
    /\ allPRs' = allPRs
    /\ result' = <<>>
    /\ failure' = "none"
    /\ received' = <<>>
    /\ earlier' = (earlier \/ ReturnedReviewers)
    /\ UNCHANGED bvars
    /\ UNCHANGED cvars

\* reviewerStats(params) is called and gets its Git client; a project and a
\* repository are given (single) or not
Invoke ==
    /\ pc \in {"idle", "done"}
    /\ \E ro \in BOOLEAN, single \in BOOLEAN :
         /\ requiredOnly' = ro
         /\ pc' = IF single THEN "single" ELSE "repos"
    /\ reposLeft' = 0
    /\ allPRs' = <<>>
    /\ result' = <<>>
    /\ failure' = "none"
    /\ received' = <<>>
    /\ earlier' = (earlier \/ ReturnedReviewers)
    /\ UNCHANGED bvars
    /\ UNCHANGED cvars

\* a plausible slip: the setup left outside the try block, so that its
\* exception leaves the function and no result is returned
SetupFailsThrows ==
    /\ pc \in {"idle", "done"}
    /\ result' = <<>>
    /\ pc' = "done"
    /\ allPRs' = <<>>
    /\ reposLeft' = 0
    /\ failure' = "setup"
    /\ UNCHANGED requiredOnly
    /\ received' = <<>>
    /\ earlier' = (earlier \/ ReturnedReviewers)
    /\ UNCHANGED bvars
    /\ UNCHANGED cvars

\* requireOrg or getGitApi throws: the catch block returns
SetupFails ==
    /\ pc \in {"idle", "done"}
    /\ result' = <<FailureResult>>
    /\ pc' = "done"
    /\ allPRs' = <<>>
    /\ reposLeft' = 0
    /\ failure' = "setup"
    /\ UNCHANGED requiredOnly
    /\ received' = <<>>
    /\ earlier' = (earlier \/ ReturnedReviewers)
    /\ UNCHANGED bvars
    /\ UNCHANGED cvars

\* allPRs = await gitApi.getPullRequests(repo, ...)
GetPullRequests(service) ==
    /\ pc = "single"
    /\ \/ allPRs' = <<>>
       \/ \E n \in { n \in 0 .. service.budget : n <= service.most } :
            LET firsts == PRsWith(service, n)
                rests == PRLists(service, MaxPRs - 1, service.budget - n)
            IN  \E pr \in firsts, rest \in rests :
                    allPRs' = WithIds(<<pr>> \o rest, 0)
    /\ pc' = "fetched"
    /\ UNCHANGED <<requiredOnly, reposLeft, result, failure>>
    /\ received' = allPRs'
    /\ UNCHANGED earlier
    /\ UNCHANGED bvars
    /\ UNCHANGED cvars

\* repos = await gitApi.getRepositories(...), n of them
GetRepositories ==
    /\ pc = "repos"
    /\ \E n \in 0 .. MaxRepos :
         /\ reposLeft' = n
         /\ pc' = IF n = 0 THEN "fetched" ELSE "loop"
    /\ UNCHANGED <<requiredOnly, allPRs, result, failure>>
    /\ UNCHANGED <<received, earlier>>
    /\ UNCHANGED bvars
    /\ UNCHANGED cvars

\* a plausible slip: the top-level request guarded like the requests of the
\* loop, its failure skipped and the pass carried on with no pull requests
ListingFailsSkipped ==
    /\ pc \in {"single", "repos"}
    /\ \E k \in 0 .. RandomGrain - 1 :
         result' = <<SuccessResult(<<>>, requiredOnly, k)>>
    /\ pc' = "done"
    /\ failure' = "listing"
    /\ UNCHANGED <<requiredOnly, reposLeft, allPRs>>
    /\ UNCHANGED <<received, earlier>>
    /\ UNCHANGED bvars
    /\ UNCHANGED cvars

\* the top-level getPullRequests or getRepositories throws: the catch block
ListingFails ==
    /\ pc \in {"single", "repos"}
    /\ result' = <<FailureResult>>
    /\ pc' = "done"
    /\ failure' = "listing"
    /\ UNCHANGED <<requiredOnly, reposLeft, allPRs>>
    /\ UNCHANGED <<received, earlier>>
    /\ UNCHANGED bvars
    /\ UNCHANGED cvars

\* one repository of the loop: allPRs.push(...prs)
FetchRepo(service) ==
    /\ pc = "loop"
    /\ reposLeft > 0
    /\ \/ allPRs' = allPRs
       \/ /\ Len(allPRs) < MaxPRs
          /\ \E n \in { n \in 0 .. service.budget - Assignments(allPRs) :
                           n <= service.most } :
               LET firsts == PRsWith(service, n)
                   rests == PRLists(service, MaxPRs - Len(allPRs) - 1,
                                    service.budget - Assignments(allPRs) - n)
               IN  \E pr \in firsts, rest \in rests :
                       allPRs' = allPRs \o WithIds(<<pr>> \o rest, Len(allPRs))
    /\ reposLeft' = reposLeft - 1
    /\ pc' = IF reposLeft = 1 THEN "fetched" ELSE "loop"
    /\ UNCHANGED <<requiredOnly, result, failure>>
    /\ received' = received \o SubSeq(allPRs', Len(allPRs) + 1, Len(allPRs'))
    /\ UNCHANGED earlier
    /\ UNCHANGED bvars
    /\ UNCHANGED cvars

\* one repository of the loop without a name (or project name): continue
SkipRepo ==
    /\ pc = "loop"
    /\ reposLeft > 0
    /\ reposLeft' = reposLeft - 1
    /\ pc' = IF reposLeft = 1 THEN "fetched" ELSE "loop"
    /\ UNCHANGED <<requiredOnly, allPRs, result, failure>>
    /\ UNCHANGED <<received, earlier>>
    /\ UNCHANGED bvars
    /\ UNCHANGED cvars

\* one repository of the loop whose getPullRequests throws: the inner catch
\* skips it
RepoFetchFails ==
    /\ pc = "loop"
    /\ reposLeft > 0
    /\ reposLeft' = reposLeft - 1
    /\ pc' = IF reposLeft = 1 THEN "fetched" ELSE "loop"
    /\ failure' = "repo"
    /\ UNCHANGED <<requiredOnly, allPRs, result>>
    /\ UNCHANGED <<received, earlier>>
    /\ UNCHANGED bvars
    /\ UNCHANGED cvars

\* the rest of the call, which has no await: filter, aggregate, sort, render
\* (with the random source returning k / RandomGrain) and return
Aggregate ==
    /\ pc = "fetched"
    /\ \E k \in 0 .. RandomGrain - 1 :
         result' = <<SuccessResult(allPRs, requiredOnly, k)>>
    /\ pc' = "done"
    /\ UNCHANGED <<requiredOnly, reposLeft, allPRs, failure>>
    /\ UNCHANGED <<received, earlier>>
    /\ UNCHANGED bvars
    /\ UNCHANGED cvars

Next ==
    \/ Invoke
    \/ SetupFails
    \/ GetPullRequests(Service)
    \/ GetRepositories
    \/ ListingFails
    \/ FetchRepo(Service)
    \/ SkipRepo
    \/ RepoFetchFails
    \/ Aggregate

Spec == Init /\ [][Next]_vars

(***************************************************************************)
(* The same process against a service whose pull requests carry at most    *)
(* one reviewer, required, with any vote from -MaxVote to MaxVote or none. *)
(***************************************************************************)
VoteService ==
    [inputs |-> { [uniqueName |-> "a@x.io", displayName |-> "Ann",
                   isRequired |-> TRUE, vote |-> v] :
                    v \in { <<>> } \cup { <<n>> : n \in -MaxVote .. MaxVote } },
     drafts |-> {FALSE},
     most |-> 1,
     budget |-> MaxAssignments]

VoteNext ==
    \/ Invoke
    \/ SetupFails
    \/ GetPullRequests(VoteService)
    \/ GetRepositories
    \/ ListingFails
    \/ FetchRepo(VoteService)
    \/ SkipRepo
    \/ RepoFetchFails
    \/ Aggregate

SpecVotes == Init /\ [][VoteNext]_vars

(***************************************************************************)
(* The same process against a service with three reviewers, all required   *)
(* and approving, on up to MaxSortAssignments assignments: the lists the   *)
(* sort has to reorder.                                                    *)
(***************************************************************************)
SortService ==
    [inputs |-> { [uniqueName |-> "a@x.io", displayName |-> "Ann",
                   isRequired |-> TRUE, vote |-> <<10>>],
                  [uniqueName |-> "b@x.io", displayName |-> "Bob",
                   isRequired |-> TRUE, vote |-> <<10>>],
                  [uniqueName |-> "c@x.io", displayName |-> "Christopher",
                   isRequired |-> TRUE, vote |-> <<10>>] },
     drafts |-> {FALSE},
     most |-> MaxSortAssignments,
     budget |-> MaxSortAssignments]

SortNext ==
    \/ Invoke
    \/ SetupFails
    \/ GetPullRequests(SortService)
    \/ GetRepositories
    \/ ListingFails
    \/ FetchRepo(SortService)
    \/ SkipRepo
    \/ RepoFetchFails
    \/ Aggregate

SpecSort == Init /\ [][SortNext]_vars

(***************************************************************************)
(* The same process against a service whose reviewer assignments are       *)
(* degraded: emails in other letter case or with surrounding blanks, a     *)
(* missing email, a missing display name, a missing vote, and another      *)
(* display name for the same email.                                        *)
(***************************************************************************)
IdentityService ==
    [inputs |-> { [uniqueName |-> "a@x.io", displayName |-> "Ann",
                   isRequired |-> TRUE, vote |-> <<10>>],
                  [uniqueName |-> "a@x.io", displayName |-> "Ann",
                   isRequired |-> TRUE, vote |-> <<>>],
                  [uniqueName |-> "A@X.IO", displayName |-> "Anna",
                   isRequired |-> TRUE, vote |-> <<10>>],
                  [uniqueName |-> " a@x.io ", displayName |-> "Ann",
                   isRequired |-> TRUE, vote |-> <<10>>],
                  [uniqueName |-> "", displayName |-> "Ann",
                   isRequired |-> TRUE, vote |-> <<10>>],
                  [uniqueName |-> "b@x.io", displayName |-> "",
                   isRequired |-> TRUE, vote |-> <<-5>>],
                  [uniqueName |-> "b@x.io", displayName |-> "Bob",
                   isRequired |-> TRUE, vote |-> <<10>>] },
     drafts |-> {FALSE},
     most |-> MaxIdentityAssignments,
     budget |-> MaxIdentityAssignments]

IdentityNext ==
    \/ Invoke
    \/ SetupFails
    \/ GetPullRequests(IdentityService)
    \/ GetRepositories
    \/ ListingFails
    \/ FetchRepo(IdentityService)
    \/ SkipRepo
    \/ RepoFetchFails
    \/ Aggregate

SpecIdentity == Init /\ [][IdentityNext]_vars

(***************************************************************************)
(* connection.ts: getGitApi and getConnection with the module's cache      *)
(* (webApi, gitApi, currentOrg).  A call runs without interruption up to   *)
(* its next await; calls interleave at their awaits.  A client is          *)
(* identified with the organization it was created for.                    *)
(***************************************************************************)
Organizations == {"org1", "org2"}

\* getGitApi(org) is called and runs up to its first await: the cached
\* client is dropped when the organization changed and returned when there
\* is one; otherwise getConnection(org) runs (it has no await of its own),
\* resets the cache when the organization changed and returns the cached or
\* a new WebApi, on which the call then waits
StartGetGitApi(org) ==
    /\ Len(calls) < MaxCalls
    /\ LET gitApi1 == IF currentOrg # <<org>> THEN <<>> ELSE gitApi
       IN  IF gitApi1 # <<>>
           THEN /\ calls' = Append(calls, [org |-> org, at |-> "done",
                                            connection |-> <<>>,
                                            returned |-> gitApi1])
                /\ gitApi' = gitApi1
                /\ UNCHANGED <<webApi, currentOrg>>
           ELSE LET changed == currentOrg # <<org>>
                    webApi1 == IF changed THEN <<>> ELSE webApi
                    webApi2 == IF webApi1 # <<>> THEN webApi1 ELSE <<org>>
                IN  /\ webApi' = webApi2
                    /\ gitApi' = <<>>
                    /\ currentOrg' = <<org>>
                    /\ calls' = Append(calls, [org |-> org,
                                                at |-> "awaitConnection",
                                                connection |-> webApi2,
                                                returned |-> <<>>])
    /\ UNCHANGED pvars
    /\ UNCHANGED bvars

\* getGitApi(org) is called while no personal access token is configured:
\* the cached client is dropped when the organization differs, then
\* getConfig() throws in getConnection before anything else is touched.
\* getConfig caches its result, so this happens only while every earlier
\* call failed the same way
GetConfigThrows(org) ==
    /\ Len(calls) < MaxCalls
    /\ \A c \in DOMAIN calls :
           calls[c].at = "failed" /\ calls[c].connection = <<>>
    /\ gitApi' = IF currentOrg # <<org>> THEN <<>> ELSE gitApi
    /\ calls' = Append(calls, [org |-> org, at |-> "failed",
                                connection |-> <<>>, returned |-> <<>>])
    /\ UNCHANGED <<webApi, currentOrg>>
    /\ UNCHANGED pvars
    /\ UNCHANGED bvars

\* the call resumes with its connection and calls connection.getGitApi(),
\* on which it then waits
ResumeWithConnection(c) ==
    /\ c \in DOMAIN calls
    /\ calls[c].at = "awaitConnection"
    /\ calls' = [calls EXCEPT ![c].at = "awaitApi"]
    /\ UNCHANGED <<webApi, gitApi, currentOrg>>
    /\ UNCHANGED pvars
    /\ UNCHANGED bvars

\* the call resumes with the client of its connection: gitApi = ...;
\* return gitApi
ResumeWithApi(c) ==
    /\ c \in DOMAIN calls
    /\ calls[c].at = "awaitApi"
    /\ gitApi' = calls[c].connection
    /\ calls' = [calls EXCEPT ![c].at = "done", ![c].returned = gitApi']
    /\ UNCHANGED <<webApi, currentOrg>>
    /\ UNCHANGED pvars
    /\ UNCHANGED bvars

\* connection.getGitApi() rejects: the call throws
ApiRejects(c) ==
    /\ c \in DOMAIN calls
    /\ calls[c].at = "awaitApi"
    /\ calls' = [calls EXCEPT ![c].at = "failed"]
    /\ UNCHANGED <<webApi, gitApi, currentOrg>>
    /\ UNCHANGED pvars
    /\ UNCHANGED bvars

ConnectionNext ==
    \/ \E org \in Organizations : StartGetGitApi(org)
    \/ \E org \in Organizations : GetConfigThrows(org)
    \/ \E c \in 1 .. MaxCalls : ResumeWithConnection(c)
    \/ \E c \in 1 .. MaxCalls : ResumeWithApi(c)
    \/ \E c \in 1 .. MaxCalls : ApiRejects(c)

SpecConnection == Init /\ [][ConnectionNext]_vars

(***************************************************************************)
(* Properties of the aggregation.                                          *)
(***************************************************************************)
\* the call has returned a success result
Succeeded == pc = "done" /\ Len(result) = 1 /\ result[1].success
Reviewers == result[1].data.reviewers

RECURSIVE WithoutDrafts(_)
\* the input with its draft pull requests removed
WithoutDrafts(prs) ==
    IF Len(prs) = 0 THEN <<>>
    ELSE IF Head(prs).isDraft THEN WithoutDrafts(Tail(prs))
    ELSE <<Head(prs)>> \o WithoutDrafts(Tail(prs))

\* the (pull request, reviewer) positions of the input that hold a required
\* assignment on a pull request that is no draft
RequiredAssignments ==
    UNION { { <<i, j>> : j \in { j \in DOMAIN allPRs[i].reviewers :
                                    allPRs[i].reviewers[j].isRequired } } :
            i \in { i \in DOMAIN allPRs : ~allPRs[i].isDraft } }
EmailAt(a) == ToLowerCase(allPRs[a[1]].reviewers[a[2]].uniqueName)
VoteAt(a) == VoteOf(allPRs[a[1]].reviewers[a[2]])

\* C1: after any pass every ReviewerStat of the result has approvedCount +
\* waitingForAuthorCount + rejectedCount + pendingCount = requiredCount
C1_BucketsAddUpToRequired ==
    Succeeded =>
        \A i \in DOMAIN Reviewers :
            Reviewers[i].approvedCount + Reviewers[i].waitingForAuthorCount
              + Reviewers[i].rejectedCount + Reviewers[i].pendingCount
            = Reviewers[i].requiredCount

\* a reviewer with several counted assignments that fell into different
\* outcome buckets
C1_Witness ==
    /\ Succeeded
    /\ \E i \in DOMAIN Reviewers :
         /\ Reviewers[i].requiredCount >= 2
         /\ Reviewers[i].pendingCount >= 1
         /\ Reviewers[i].rejectedCount >= 1

\* C2: draft pull requests contribute nothing: the statistics and totalPRs
\* are those of the input without its drafts, no detail record names a draft
\* pull request, and a reviewer seen on drafts only has no ReviewerStat
C2_DraftsNeverContribute ==
    Succeeded =>
        /\ Reviewers = SortedStats(WithoutDrafts(allPRs))
        /\ result[1].data.totalPRs = Len(WithoutDrafts(allPRs))
        /\ \A i \in DOMAIN Reviewers :
             /\ \A d \in DOMAIN Reviewers[i].prs :
                  \E n \in DOMAIN allPRs :
                     /\ allPRs[n].pullRequestId = Reviewers[i].prs[d].id
                     /\ ~allPRs[n].isDraft
             /\ \E n \in DOMAIN allPRs :
                  /\ ~allPRs[n].isDraft
                  /\ \E j \in DOMAIN allPRs[n].reviewers :
                       ToLowerCase(allPRs[n].reviewers[j].uniqueName)
                         = ToLowerCase(Reviewers[i].email)

\* a draft with a required reviewer who is on no other pull request, beside
\* a pull request that counts
C2_Witness ==
    /\ Succeeded
    /\ Len(Reviewers) = 1
    /\ \E n \in DOMAIN allPRs :
         /\ allPRs[n].isDraft
         /\ \E j \in DOMAIN allPRs[n].reviewers :
              /\ allPRs[n].reviewers[j].isRequired
              /\ allPRs[n].reviewers[j].uniqueName # Reviewers[1].email

C4_VoteClassification ==
    Succeeded =>
        \A i \in DOMAIN Reviewers :
            LET mine == { a \in RequiredAssignments :
                            EmailAt(a) = ToLowerCase(Reviewers[i].email) }
            IN  /\ Reviewers[i].approvedCount
                     = Cardinality({ a \in mine : VoteAt(a) >= 10 })
                /\ Reviewers[i].waitingForAuthorCount
                     = Cardinality({ a \in mine : VoteAt(a) = -5 })
                /\ Reviewers[i].rejectedCount
                     = Cardinality({ a \in mine : VoteAt(a) <= -10 })
                /\ Reviewers[i].pendingCount
                     = Cardinality({ a \in mine : VoteAt(a) < 10 /\ VoteAt(a) > -10
                                                    /\ VoteAt(a) # -5 })

\* a vote of 7 and a vote of -11 were classified: one pending, one rejected
C4_Witness ==
    /\ Succeeded
    /\ Len(Reviewers) = 1
    /\ Reviewers[1].pendingCount = 1
    /\ Reviewers[1].rejectedCount = 1
    /\ { VoteAt(a) : a \in RequiredAssignments } = {7, -11}

\* the report of the returned result, as its lines
Markdown == result[1].data.markdown

\* position a of the input comes before position b in the order of the
\* aggregation: pull request by pull request, reviewer by reviewer
Before(a, b) == a[1] < b[1] \/ (a[1] = b[1] /\ a[2] < b[2])
\* the first counted assignment of an email
FirstSeen(email) ==
    CHOOSE a \in RequiredAssignments :
        /\ EmailAt(a) = email
        /\ \A b \in RequiredAssignments : EmailAt(b) = email => ~Before(b, a)
\* the names of the data rows of the report, top to bottom
RowNames ==
    LET rows == SelectSeq(Markdown, LAMBDA line : line.kind = "row")
    IN  [i \in DOMAIN rows |-> rows[i].cells[1]]

\* C13: the reviewers list returned is sorted descending by requiredCount,
\* ties broken by descending totalCount, reviewers equal on both keys in the
\* order in which the aggregation first discovered them, and the report
\* shows its rows in that order
C13_SortedAndStable ==
    Succeeded =>
        /\ \A i, j \in DOMAIN Reviewers :
             i < j =>
                \/ Reviewers[i].requiredCount > Reviewers[j].requiredCount
                \/ /\ Reviewers[i].requiredCount = Reviewers[j].requiredCount
                   /\ Reviewers[i].totalCount > Reviewers[j].totalCount
                \/ /\ Reviewers[i].requiredCount = Reviewers[j].requiredCount
                   /\ Reviewers[i].totalCount = Reviewers[j].totalCount
                   /\ Before(FirstSeen(ToLowerCase(Reviewers[i].email)),
                             FirstSeen(ToLowerCase(Reviewers[j].email)))
        /\ RowNames = [i \in DOMAIN Reviewers |-> Reviewers[i].displayName]

\* the reviewer discovered last has the most assignments and comes first;
\* the other two tie and keep their order of discovery, Bob before Ann
C13_Witness ==
    /\ Succeeded
    /\ Len(Reviewers) = 3
    /\ Reviewers[1].email = "c@x.io" /\ Reviewers[1].requiredCount = 2
    /\ Reviewers[2].email = "b@x.io" /\ Reviewers[2].requiredCount = 1
    /\ Reviewers[3].email = "a@x.io" /\ Reviewers[3].requiredCount = 1
    /\ Before(FirstSeen("b@x.io"), FirstSeen("a@x.io"))
    /\ Before(FirstSeen("a@x.io"), FirstSeen("c@x.io"))

\* C11: randomness affects only which badge is surfaced: the run that
\* returned the result and a run on the same fetched pull requests with any
\* other random pick return the same reviewer statistics, the same totalPRs
\* and reports of the same lines except for the final badge line
C11_RandomnessOnlyPicksBadge ==
    Succeeded =>
        \A k \in 0 .. RandomGrain - 1 :
            LET other == SuccessResult(allPRs, requiredOnly, k).data
            IN  /\ other.reviewers = Reviewers
                /\ other.totalPRs = result[1].data.totalPRs
                /\ Len(other.markdown) = Len(Markdown)
                /\ \A n \in DOMAIN Markdown :
                     other.markdown[n] # Markdown[n] =>
                        /\ n = Len(Markdown)
                        /\ Markdown[n].kind = "badge"
                        /\ other.markdown[n].kind = "badge"

\* a result whose badge line another random pick would have made different
C11_Witness ==
    /\ Succeeded
    /\ Markdown[Len(Markdown)].kind = "badge"
    /\ \E k \in 0 .. RandomGrain - 1 :
         LET other == SuccessResult(allPRs, requiredOnly, k).data.markdown
         IN  other[Len(other)] # Markdown[Len(Markdown)]

\* the (pull request, reviewer) positions of the input on pull requests
\* that are no drafts, and those among them that are not required
CountedAssignments ==
    UNION { { <<i, j>> : j \in DOMAIN allPRs[i].reviewers } :
            i \in { i \in DOMAIN allPRs : ~allPRs[i].isDraft } }
OptionalAssignments == CountedAssignments \ RequiredAssignments

\* C14: with requiredOnly = false an assignment that is not required is not
\* skipped: every email with an assignment on a pull request that is no
\* draft has a ReviewerStat, whose optionalCount is the number of its
\* assignments that are not required and whose totalCount is the number of
\* all its assignments
C14_OptionalCountedInFullView ==
    (Succeeded /\ ~requiredOnly) =>
        /\ { ToLowerCase(Reviewers[i].email) : i \in DOMAIN Reviewers }
             = { EmailAt(a) : a \in CountedAssignments } \ {""}
        /\ \A i \in DOMAIN Reviewers :
             LET mine(set) == { a \in set :
                                 EmailAt(a) = ToLowerCase(Reviewers[i].email) }
             IN  /\ Reviewers[i].optionalCount
                      = Cardinality(mine(OptionalAssignments))
                 /\ Reviewers[i].totalCount
                      = Cardinality(mine(CountedAssignments))

\* C15: every ReviewerStat the aggregation produces has
\* totalCount = requiredCount + optionalCount
C15_TotalIsRequiredPlusOptional ==
    Succeeded =>
        \A i \in DOMAIN Reviewers :
            Reviewers[i].totalCount
              = Reviewers[i].requiredCount + Reviewers[i].optionalCount

\* a reviewer with a required and an optional assignment on pull requests
\* that are no drafts
C15_Witness ==
    /\ Succeeded
    /\ Len(Reviewers) = 1
    /\ Reviewers[1].totalCount = 1
    /\ \E a \in RequiredAssignments, b \in OptionalAssignments :
         EmailAt(a) = EmailAt(b)

\* an email lower-cased and trimmed
Normalized(str) ==
    IF ToLowerCase(str) = " a@x.io " THEN "a@x.io" ELSE ToLowerCase(str)

\* C16: reviewer identity is the email lower-cased and trimmed: no two
\* ReviewerStats share a normalized email, a ReviewerStat counts every
\* required assignment with its normalized email, and an assignment whose
\* normalized email is empty has no ReviewerStat
C16_IdentityIsNormalizedEmail ==
    Succeeded =>
        /\ \A i, j \in DOMAIN Reviewers :
             Normalized(Reviewers[i].email) = Normalized(Reviewers[j].email)
                => i = j
        /\ \A i \in DOMAIN Reviewers :
             /\ Normalized(Reviewers[i].email) # ""
             /\ Reviewers[i].requiredCount
                  = Cardinality({ a \in RequiredAssignments :
                        Normalized(allPRs[a[1]].reviewers[a[2]].uniqueName)
                          = Normalized(Reviewers[i].email) })

\* a sequence without its element at position n
Without(seq, n) == SubSeq(seq, 1, n - 1) \o SubSeq(seq, n + 1, Len(seq))
\* the input without the reviewer assignment at position a, without pull
\* request i, and with the vote at position a set to v
WithoutAssignment(a) ==
    [allPRs EXCEPT ![a[1]].reviewers = Without(@, a[2])]
WithoutPR(i) == Without(allPRs, i)
WithVote(a, v) == [allPRs EXCEPT ![a[1]].reviewers[a[2]].vote = <<v>>]
\* the ReviewerStats of a list that belong to other emails than email
OtherStats(list, email) ==
    { list[i] : i \in { i \in DOMAIN list : ToLowerCase(list[i].email) # email } }
\* the degraded records of the input
MissingEmail == { a \in RequiredAssignments :
                    allPRs[a[1]].reviewers[a[2]].uniqueName = "" }
MissingVote == { a \in RequiredAssignments :
                   /\ allPRs[a[1]].reviewers[a[2]].uniqueName # ""
                   /\ allPRs[a[1]].reviewers[a[2]].vote = <<>> }
NoReviewers == { i \in DOMAIN allPRs :
                   ~allPRs[i].isDraft /\ Len(allPRs[i].reviewers) = 0 }

\* C17: degraded input never aborts the pass: a call whose requests all
\* succeeded returns success; an assignment without email is skipped and a
\* pull request without reviewers contributes nothing (the statistics are
\* those of the input without it); an assignment without vote is counted as
\* Pending (the statistics are those of the input with the vote 0), and the
\* statistics of every other reviewer are those of the input without it
C17_DegradedInputDoesNotAbort ==
    (pc = "done" /\ failure \in {"none", "repo"}) =>
        /\ Succeeded
        /\ \A a \in MissingEmail : Reviewers = SortedStats(WithoutAssignment(a))
        /\ \A i \in NoReviewers : Reviewers = SortedStats(WithoutPR(i))
        /\ \A a \in MissingVote :
             /\ Reviewers = SortedStats(WithVote(a, 0))
             /\ OtherStats(Reviewers, EmailAt(a))
                  = OtherStats(SortedStats(WithoutAssignment(a)), EmailAt(a))

\* an input with a pull request without reviewers and a pull request with
\* an assignment without email, one without vote, and one of another
\* reviewer, who has a ReviewerStat
C17_Witness ==
    /\ Succeeded
    /\ MissingEmail # {}
    /\ NoReviewers # {}
    /\ \E a \in MissingVote :
         /\ OtherStats(Reviewers, EmailAt(a)) # {}
         /\ \E i \in DOMAIN Reviewers :
              /\ ToLowerCase(Reviewers[i].email) = EmailAt(a)
              /\ Reviewers[i].pendingCount = 1

\* C20: the displayName and the email of a ReviewerStat are those of the
\* first assignment counted for its email, in the order of the pull
\* requests; later assignments of the email leave them unchanged
C20_DisplayNameIsFirstObserved ==
    Succeeded =>
        \A i \in DOMAIN Reviewers :
            LET first == FirstSeen(ToLowerCase(Reviewers[i].email))
                reviewer == allPRs[first[1]].reviewers[first[2]]
            IN  /\ Reviewers[i].email = reviewer.uniqueName
                /\ Reviewers[i].displayName
                     = IF reviewer.displayName = "" THEN "Unknown"
                       ELSE reviewer.displayName

\* an email first seen as A@X.IO with the name Anna and then as a@x.io with
\* the name Ann, and an email first seen without a name and then as Bob
C20_Witness ==
    /\ Succeeded
    /\ \E i \in DOMAIN Reviewers :
         /\ Reviewers[i].email = "A@X.IO"
         /\ Reviewers[i].displayName = "Anna"
         /\ Reviewers[i].requiredCount = 2
         /\ \E a \in RequiredAssignments :
              allPRs[a[1]].reviewers[a[2]].displayName = "Ann"

\* C18 as stated: in every run in which a repository listing or a
\* pull-request fetch fails, the result returned is not a success result
\* with an empty reviewer list
C18_FetchFailureIsDistinct ==
    (pc = "done" /\ failure # "none") =>
        ~(result[1].success /\ Reviewers = <<>>)

\* C18 as amended: a failure of the setup, of the repository listing or of
\* the pull-request fetch of the single repository returns the failure
\* result, which no run without such a failure returns; a failed fetch of
\* one repository of the loop is skipped and the run returns the success
\* result of the pull requests of the other repositories
C18_TopLevelFailureIsDistinct ==
    pc = "done" =>
        /\ failure \in {"setup", "listing"} =>
                result = <<FailureResult>> /\ ~result[1].success
        /\ failure \in {"none", "repo"} =>
                /\ result[1].success
                /\ \E k \in 0 .. RandomGrain - 1 :
                     result[1] = SuccessResult(allPRs, requiredOnly, k)

\* a run whose repository listing (or single fetch) failed
C18_Witness ==
    /\ pc = "done"
    /\ failure = "listing"
    /\ result = <<FailureResult>>

\* C19: zero eligible reviewers is a valid result: when no required
\* assignment with an email is on a pull request that is no draft, the call
\* returns success and the report has the line "No reviewers found." and no
\* header, separator, row or badge line
C19_NoReviewersIsNotAnError ==
    ( /\ pc = "done"
      /\ failure \in {"none", "repo"}
      /\ { EmailAt(a) : a \in RequiredAssignments } \ {""} = {} ) =>
        /\ Succeeded
        /\ Reviewers = <<>>
        /\ \E n \in DOMAIN Markdown :
             Markdown[n] = [kind |-> "text", text |-> "No reviewers found."]
        /\ \A n \in DOMAIN Markdown :
             Markdown[n].kind \notin {"header", "separator", "row", "badge"}

\* pull requests were fetched and none has an eligible reviewer: a draft
\* with a required reviewer and a pull request with an optional one
C19_Witness ==
    /\ Succeeded
    /\ Reviewers = <<>>
    /\ Len(allPRs) = 2
    /\ OptionalAssignments # {}
    /\ \E i \in DOMAIN allPRs :
         /\ allPRs[i].isDraft
         /\ \E j \in DOMAIN allPRs[i].reviewers : allPRs[i].reviewers[j].isRequired
    /\ Markdown[Len(Markdown)].kind = "text"

\* C21: no state is retained between invocations: the result of every
\* call, whatever calls came before it, is the result of the pull requests
\* the service returned to this call alone
C21_NoStateBetweenInvocations ==
    Succeeded =>
        \E k \in 0 .. RandomGrain - 1 :
            result[1] = SuccessResult(received, requiredOnly, k)

\* a call after an earlier call that returned reviewers, which received one
\* pull request with one required reviewer and counts one assignment
C21_Witness ==
    /\ Succeeded
    /\ earlier
    /\ Len(received) = 1
    /\ Len(Reviewers) = 1
    /\ Reviewers[1].requiredCount = 1

\* C22: the tool and the operational script compute the same aggregate of
\* the same pull requests: the same set of reviewer emails and, per
\* reviewer, Required = requiredCount, Approved = approvedCount,
\* Unreviewed = pendingCount and
\* Blocked = waitingForAuthorCount + rejectedCount
C22_ScriptComputesSameAggregate ==
    Succeeded =>
        LET script == ScriptStats(allPRs)
        IN  /\ { script[j].Email : j \in DOMAIN script }
                 = { ToLowerCase(Reviewers[i].email) : i \in DOMAIN Reviewers }
            /\ \A i \in DOMAIN Reviewers, j \in DOMAIN script :
                 script[j].Email = ToLowerCase(Reviewers[i].email) =>
                    /\ script[j].Required = Reviewers[i].requiredCount
                    /\ script[j].Approved = Reviewers[i].approvedCount
                    /\ script[j].Unreviewed = Reviewers[i].pendingCount
                    /\ script[j].Blocked = Reviewers[i].waitingForAuthorCount
                                             + Reviewers[i].rejectedCount

\* the positions of the report's lines of a kind
LinesOf(kind) == { n \in DOMAIN Markdown : Markdown[n].kind = kind }

\* C24: the report never has more than one badge line; a badge line is the
\* last line, has an emoji, a title and a description, comes after exactly
\* one blank line that follows the last table row, and names a reviewer
\* shown in a row of the table
C24_BadgeLineEndsReport ==
    Succeeded =>
        /\ Cardinality(LinesOf("badge")) <= 1
        /\ \A n \in LinesOf("badge") :
             /\ n = Len(Markdown)
             /\ Markdown[n].title \in
                    { "Super Reviewer", "Needs Backup", "Needs Coffee",
                      "Benchwarmer", "Flawless", "Gatekeeper", "Waiting Room",
                      "Speed Demon" }
             /\ Markdown[n].emoji # ""
             /\ Markdown[n - 1].kind = "blank"
             /\ Markdown[n - 2].kind = "row"
             /\ \A m \in LinesOf("row") : m < n - 1
             /\ \E m \in LinesOf("row") :
                  Markdown[m].cells[1] = Markdown[n].description[1]

\* a report with two rows and a badge line
C24_Witness ==
    /\ Succeeded
    /\ Cardinality(LinesOf("row")) = 2
    /\ Cardinality(LinesOf("badge")) = 1

\* C25: the columns depend on requiredOnly only: the required-only view has
\* the six columns name, required, approved, waiting for author, rejected,
\* pending and the full view the eight columns name, required, optional,
\* total, approved, waiting for author, rejected, pending, in that order,
\* and the row of a reviewer shows the reviewer's counts in those columns
C25_ColumnsFollowRequiredOnly ==
    (Succeeded /\ Reviewers # <<>>) =>
        /\ \A n \in LinesOf("header") :
             Markdown[n].cells =
                IF requiredOnly
                THEN <<"Reviewer", "Required", "Approved",
                       "Waiting for Author", "Rejected", "Unreviewed">>
                ELSE <<"Reviewer", "Required", "Optional", "Total", "Approved",
                       "Waiting for Author", "Rejected", "Unreviewed">>
        /\ Cardinality(LinesOf("header")) = 1
        /\ Cardinality(LinesOf("row")) = Len(Reviewers)
        /\ \A i \in DOMAIN Reviewers :
             LET r == Reviewers[i]
                 cells == Markdown[4 + i].cells
             IN  /\ Markdown[4 + i].kind = "row"
                 /\ cells[1] = r.displayName
                 /\ cells[2] = r.requiredCount
                 /\ IF requiredOnly
                    THEN /\ Len(cells) = 6
                         /\ cells[3] = r.approvedCount
                         /\ cells[4] = r.waitingForAuthorCount
                         /\ cells[5] = r.rejectedCount
                         /\ cells[6] = r.pendingCount
                    ELSE /\ Len(cells) = 8
                         /\ cells[3] = r.optionalCount
                         /\ cells[4] = r.totalCount
                         /\ cells[5] = r.approvedCount
                         /\ cells[6] = r.waitingForAuthorCount
                         /\ cells[7] = r.rejectedCount
                         /\ cells[8] = r.pendingCount

\* the full view with the row of a reviewer who has an assignment waiting
\* for the author and the row of a reviewer who rejected
C25_Witness ==
    /\ Succeeded
    /\ ~requiredOnly
    /\ Len(Reviewers) = 2
    /\ Reviewers[1].waitingForAuthorCount = 1
    /\ Reviewers[2].rejectedCount = 1
    /\ Len(Markdown[5].cells) = 8

\* C26: the table is fixed-width: the name column is as wide as the longest
\* displayName and at least 8, every other column as wide as its header
\* text, and the header line, the separator line and every row have the
\* same length
C26_TableIsFixedWidth ==
    (Succeeded /\ Reviewers # <<>>) =>
        \A n \in LinesOf("header") \cup LinesOf("separator") \cup LinesOf("row") :
            LET widths == Markdown[n].widths
            IN  /\ widths[1] >= 8
                /\ \A i \in DOMAIN Reviewers : widths[1] >= Len(Reviewers[i].displayName)
                /\ \/ widths[1] = 8
                   \/ \E i \in DOMAIN Reviewers : widths[1] = Len(Reviewers[i].displayName)
                /\ \A c \in 2 .. Len(widths) :
                     \A h \in LinesOf("header") : widths[c] = Len(Markdown[h].cells[c])
                /\ \A h \in LinesOf("header") :
                     LineLength(Markdown[n]) = LineLength(Markdown[h])

\* a table with a displayName longer than 8 characters and a shorter one
C26_Witness ==
    /\ Succeeded
    /\ \E i, j \in DOMAIN Reviewers :
         /\ Len(Reviewers[i].displayName) > 8
         /\ Len(Reviewers[j].displayName) < 8
    /\ \E n \in LinesOf("row") : LineLength(Markdown[n]) > 8 + 2 + 8

\* C30: reviewerStats never throws: every call ends with one
\* OperationResult; a failure of the setup (configuration, organization,
\* connection) or of a top-level listing gives success = false, the error
\* "REVIEWER_STATS_FAILED" and no data; every success = true result has data
\* with the reviewers, totalPRs = the number of pull requests fetched that
\* are no drafts, and the report
C30_AlwaysReturnsOperationResult ==
    pc = "done" =>
        /\ Len(result) = 1
        /\ "success" \in DOMAIN result[1]
        /\ failure \in {"setup", "listing"} =>
                /\ result[1].success = FALSE
                /\ result[1].error = "REVIEWER_STATS_FAILED"
                /\ "data" \notin DOMAIN result[1]
        /\ result[1].success = TRUE =>
                /\ failure \in {"none", "repo"}
                /\ DOMAIN result[1].data = {"reviewers", "totalPRs", "markdown"}
                /\ result[1].data.totalPRs = Len(WithoutDrafts(received))
                /\ Len(Markdown) >= 1
                /\ Markdown[1].kind = "heading"

\* a call whose setup failed, made after a call that returned reviewers
C30_Witness ==
    /\ pc = "done"
    /\ failure = "setup"
    /\ earlier
    /\ Len(result) = 1
    /\ "data" \notin DOMAIN result[1]

\* C27: every call of getGitApi that returns, returns a client created for
\* the organization passed to that call, however the calls interleave
C27_ClientIsForRequestedOrg ==
    \A c \in DOMAIN calls :
        calls[c].at = "done" => calls[c].returned = <<calls[c].org>>

(***************************************************************************)
(* Properties of the badge classification, stated on the numbers of the    *)
(* specification's rule table: n reviewers whose requiredCounts add up to  *)
(* total have the average total / n.                                       *)
(***************************************************************************)
Classified == bpc \in {"assigned", "picked"}

RECURSIVE TotalRequired(_)
\* the requiredCounts of stats[1 .. n] added up
TotalRequired(n) == IF n = 0 THEN 0 ELSE stats[n].requiredCount + TotalRequired(n - 1)

\* requiredCount >= 1.5 * avgRequired
TableHighVolume(i) ==
    2 * Len(stats) * stats[i].requiredCount >= 3 * TotalRequired(Len(stats))
\* requiredCount <= max(1, 0.5 * avgRequired)
TableLowVolume(i) ==
    \/ stats[i].requiredCount <= 1
    \/ 2 * Len(stats) * stats[i].requiredCount <= TotalRequired(Len(stats))
TableMedVolume(i) == ~TableHighVolume(i) /\ ~TableLowVolume(i)

\* the condition of rule n of the table for stats[i], requiredCount > 0
TableRule(n, i) ==
    LET r == stats[i]
    IN  CASE n = 1 -> TableHighVolume(i) /\ 10 * r.approvedCount >= 8 * r.requiredCount
          [] n = 2 -> TableHighVolume(i) /\ 10 * r.pendingCount >= 5 * r.requiredCount
          [] n = 3 -> /\ TableLowVolume(i) \/ TableMedVolume(i)
                      /\ 10 * r.pendingCount >= 7 * r.requiredCount
                      /\ r.pendingCount >= 2
          [] n = 4 -> TableLowVolume(i) /\ r.requiredCount <= 1
          [] n = 5 -> r.requiredCount >= 2 /\ r.approvedCount = r.requiredCount
          [] n = 6 -> r.rejectedCount >= 1
          [] n = 7 -> r.waitingForAuthorCount >= 2
          [] n = 8 -> TableMedVolume(i) /\ 10 * r.approvedCount >= 7 * r.requiredCount

TableTitle ==
    << "Super Reviewer", "Needs Backup", "Needs Coffee", "Benchwarmer",
       "Flawless", "Gatekeeper", "Waiting Room", "Speed Demon" >>

\* the titles of the badges assignBadges returned for stats[i]
TitlesOf(i) == { badges[b].title : b \in { b \in DOMAIN badges : badges[b].reviewer = i } }

\* C23 as stated: there is a reviewer with requiredCount > 0 and a group
\* average for which the tool's Benchwarmer condition and the script's have
\* different truth values; looked for, once a list is classified, among
\* all the counts and all the averages total / n of the lists within the
\* bounds
C23_BenchwarmerTestsDiffer ==
    Classified =>
        \E n \in 1 .. MaxStats, total \in 0 .. MaxTotal, req \in 1 .. MaxReq :
            LET r == [requiredCount |-> req]
            IN  BenchwarmerCondition(r, Rat(total, n))
                  # ScriptBenchwarmer(r, Rat(total, n))

\* C23 as amended: for every reviewer with requiredCount > 0 of every
\* classified list the tool's Benchwarmer condition and the script's have
\* the same truth value
C23_BenchwarmerTestsAgree ==
    Classified =>
        \A i \in DOMAIN stats :
            stats[i].requiredCount > 0 =>
                ( BenchwarmerCondition(stats[i], avgRequired)
                  <=> ScriptBenchwarmer(stats[i], avgRequired) )

\* a reviewer with requiredCount = 1 in a list whose average is below 2, so
\* that only the floor of 1 makes it low-volume
C23_Witness ==
    /\ Classified
    /\ \E i \in DOMAIN stats :
         /\ stats[i].requiredCount = 1
         /\ ~isLowVolumeNoFloor(stats[i], avgRequired)
         /\ BenchwarmerCondition(stats[i], avgRequired)
         /\ ScriptBenchwarmer(stats[i], avgRequired)

\* C5: in the list assignBadges returns no reviewer appears in more than one
\* (reviewer, badge) pair
C5_OneBadgePerReviewer ==
    Classified =>
        \A a, b \in DOMAIN badges :
            badges[a].reviewer = badges[b].reviewer => a = b

\* two reviewers hold badges, and one holds Flawless while the condition of
\* Speed Demon holds for it too
C5_Witness ==
    /\ Classified
    /\ Len(badges) >= 2
    /\ \E b \in DOMAIN badges :
         /\ badges[b].title = "Flawless"
         /\ TableRule(8, badges[b].reviewer)

\* C6: a reviewer with requiredCount > 0 gets exactly the badge of the first
\* rule of the table whose condition holds, a reviewer matching no rule or
\* with requiredCount = 0 gets none, and badges refer to reviewers of the list
C6_FirstMatchingRule ==
    Classified =>
        /\ \A b \in DOMAIN badges : badges[b].reviewer \in DOMAIN stats
        /\ \A i \in DOMAIN stats :
             LET matching == { n \in 1 .. 8 : TableRule(n, i) }
             IN  IF stats[i].requiredCount = 0 \/ matching = {}
                 THEN TitlesOf(i) = {}
                 ELSE TitlesOf(i) =
                        { TableTitle[CHOOSE n \in matching :
                                        \A m \in matching : n <= m] }

\* a list with a reviewer for whom two rules hold (Gatekeeper, Waiting Room),
\* a reviewer matching no rule and a reviewer with requiredCount = 0
C6_Witness ==
    /\ Classified
    /\ \E i \in DOMAIN stats :
         /\ TableRule(6, i) /\ TableRule(7, i)
         /\ TitlesOf(i) = {"Gatekeeper"}
    /\ \E i \in DOMAIN stats :
         /\ stats[i].requiredCount > 0
         /\ \A n \in 1 .. 8 : ~TableRule(n, i)
    /\ \E i \in DOMAIN stats : stats[i].requiredCount = 0

\* C7: where every reviewer has requiredCount >= 1, a reviewer with
\* requiredCount = 1 gets Benchwarmer and no reviewer with requiredCount >= 2
\* does
C7_BenchwarmerIsRequiredOne ==
    (Classified /\ \A i \in DOMAIN stats : stats[i].requiredCount >= 1) =>
        \A i \in DOMAIN stats :
            /\ stats[i].requiredCount = 1 => TitlesOf(i) = {"Benchwarmer"}
            /\ stats[i].requiredCount >= 2 => "Benchwarmer" \notin TitlesOf(i)

\* the requiredCounts 5, 5, 1: the third reviewer is the Benchwarmer
C7_Witness ==
    /\ Classified
    /\ Len(stats) = 3
    /\ stats[1].requiredCount = 5
    /\ stats[2].requiredCount = 5
    /\ stats[3].requiredCount = 1
    /\ TitlesOf(3) = {"Benchwarmer"}

\* C8: a reviewer neither high-volume nor low-volume with requiredCount >= 2
\* and approvedCount = requiredCount gets Flawless and not Speed Demon
C8_FlawlessBeforeSpeedDemon ==
    Classified =>
        \A i \in DOMAIN stats :
            ( /\ TableMedVolume(i)
              /\ stats[i].requiredCount >= 2
              /\ stats[i].approvedCount = stats[i].requiredCount )
            => TitlesOf(i) = {"Flawless"}

\* requiredCount = 4, approvedCount = 4, medium volume: Flawless, while the
\* Speed Demon condition holds
C8_Witness ==
    /\ Classified
    /\ \E i \in DOMAIN stats :
         /\ stats[i].requiredCount = 4
         /\ stats[i].approvedCount = 4
         /\ TableMedVolume(i)
         /\ TableRule(8, i)
         /\ TitlesOf(i) = {"Flawless"}

\* C9: avgRequired is the mean of requiredCount over all the stats passed
\* in, those with requiredCount = 0 included, and 0 for the empty list, which
\* gets no badges
C9_AvgRequiredIsMean ==
    Classified =>
        IF Len(stats) = 0
        THEN avgRequired[1] = 0 /\ avgRequired[2] > 0 /\ badges = <<>>
        ELSE /\ avgRequired[2] > 0
             /\ avgRequired[1] * Len(stats)
                  = TotalRequired(Len(stats)) * avgRequired[2]

\* a list with a reviewer of requiredCount = 0 and one of requiredCount = 3:
\* the average is 3 / 2
C9_Witness ==
    /\ Classified
    /\ Len(stats) = 2
    /\ stats[1].requiredCount = 3
    /\ stats[2].requiredCount = 0
    /\ 2 * avgRequired[1] = 3 * avgRequired[2]

\* C10: pickRandomBadge selects exactly one pair, an element of the list,
\* when the list is not empty, whatever the random source returns, and none
\* when the list is empty
C10_PickIsOneOfTheBadges ==
    bpc = "picked" =>
        IF Len(badges) = 0
        THEN badge = <<>>
        ELSE /\ Len(badge) = 1
             /\ \E b \in DOMAIN badges : badge[1] = badges[b]

\* three qualifying pairs, the last of them selected
C10_Witness ==
    /\ bpc = "picked"
    /\ Len(badges) = 3
    /\ badge = <<badges[3]>>

\* C28: in a classified list whose reviewers all have requiredCount >= 1, as
\* the aggregator produces them, exactly one of isHighVolume, isLowVolume
\* and isMedVolume holds of every reviewer; none is both high-volume and
\* low-volume
C28_VolumeClassesPartition ==
    (Classified /\ \A i \in DOMAIN stats : stats[i].requiredCount >= 1) =>
        \A i \in DOMAIN stats :
            LET high == isHighVolume(stats[i], avgRequired)
                low  == isLowVolume(stats[i], avgRequired)
                med  == isMedVolume(stats[i], avgRequired)
            IN  /\ high \/ low \/ med
                /\ ~(high /\ low)
                /\ ~(high /\ med)
                /\ ~(low /\ med)

\* a list with a high-volume, a medium-volume and a low-volume reviewer
C28_Witness ==
    /\ Classified
    /\ Len(stats) = 3
    /\ \A i \in DOMAIN stats : stats[i].requiredCount >= 1
    /\ isHighVolume(stats[1], avgRequired)
    /\ isMedVolume(stats[2], avgRequired)
    /\ isLowVolume(stats[3], avgRequired)

\* C29: when all reviewers of the classified list have the same
\* requiredCount > 0, a single reviewer included, none is high-volume and
\* none gets Super Reviewer or Needs Backup
C29_EqualCountsAreNeverHighVolume ==
    ( /\ Classified
      /\ Len(stats) >= 1
      /\ stats[1].requiredCount > 0
      /\ \A i \in DOMAIN stats : stats[i].requiredCount = stats[1].requiredCount ) =>
        \A i \in DOMAIN stats :
            /\ ~isHighVolume(stats[i], avgRequired)
            /\ TitlesOf(i) \cap {"Super Reviewer", "Needs Backup"} = {}

\* three reviewers with three required reviews each: the first approved
\* all of them and the second none, which would make them Super Reviewer
\* and Needs Backup if they were high-volume
C29_Witness ==
    /\ Classified
    /\ Len(stats) = 3
    /\ \A i \in DOMAIN stats : stats[i].requiredCount = 3
    /\ stats[1].approvedCount = 3
    /\ stats[2].pendingCount = 3
    /\ TitlesOf(1) = {"Flawless"}
    /\ TitlesOf(2) = {"Needs Coffee"}

====
